---- MODULE Spec2Model ----
(***************************************************************************)
(* HockeyApp (src/src/main.rs): an iced application that searches for a    *)
(* random team, resolves its logo through a file cache in the temp         *)
(* directory and shows it.  The model covers the application state, the    *)
(* messages handled by HockeyApp::update, the search tasks started by      *)
(* Command::perform(Team::search(), Message::TeamFound), each task's       *)
(* position at the awaits of Team::search / get_sprite_for_team, and the   *)
(* cache files under the temp directory.                                   *)
(***************************************************************************)
EXTENDS Integers, Sequences, FiniteSets, TLC

\* ---------------------------------------------------------------- bounds
MaxSearches == 3   \* search tasks started in one run
MaxPending  == 2   \* Search messages queued and not yet handled by update
MaxId       == 2   \* team ids 1..MaxId known to the directory endpoint
MaxTeams    == 2   \* length of a directory response
MaxBodyLen  == 1   \* length of an image response body

\* ------------------------------------------------- environment's values
TeamNames == <<"A", "B", "C", "D", "E", "F">>

\* a record of the directory (stats_api team: id, name, active)
ApiTeam(i) == [id |-> i, name |-> TeamNames[i], active |-> (i % 2 = 1)]

ApiTeams == {ApiTeam(i) : i \in 1..MaxId}

\* the possible Ok values of get_teams(): any list, the empty one included
Directories == UNION {[1..n -> ApiTeams] : n \in 0..MaxTeams}

\* the byte values occurring in a body
ByteVals == {60}

Bodies == UNION {[1..n -> ByteVals] : n \in 0..MaxBodyLen}

Statuses == {200, 404}

\* what the image endpoint may answer: any status with any body
Responses == [status : Statuses, body : Bodies]

\* ------------------------------------------------------ paths and files
\* std::env::temp_dir() followed by path.push(format!("{}.svg", id))
CachePath(id) == [dir |-> "tmp", stem |-> id, ext |-> "svg"]

NoPath == [dir |-> "", stem |-> 0, ext |-> ""]

Paths == {CachePath(i) : i \in 1..MaxId}

\* format!("http://www-league.nhlstatic.com/images/logos/teams-current-circle/{}.svg", id)
SpriteUrl(id) ==
    [base |-> "http://www-league.nhlstatic.com/images/logos/teams-current-circle/",
     stem |-> id, ext |-> "svg"]

NoUrl == [base |-> "", stem |-> 0, ext |-> ""]

NoFile == [exists |-> FALSE, bytes |-> <<>>]

File(b) == [exists |-> TRUE, bytes |-> b]

\* path.is_file()
IsFile(files, path) == files[path].exists

\* a write that stops one byte short and still reports success
WriteFileShort(files, path, bytes) ==
    [files EXCEPT ![path] = File(SubSeq(bytes, 1, Len(bytes) - 1))]

\* a successful std::fs::write(&path, sprite_bytes): the file is created or
\* truncated and holds exactly the bytes
WriteFile(files, path, bytes) == [files EXCEPT ![path] = File(bytes)]

\* the strict prefixes of b: what a failed std::fs::write can leave behind
StrictPrefixes(b) == {SubSeq(b, 1, n) : n \in 0..(Len(b) - 1)}

\* ------------------------------------------------------- Team and Error
\* svg::Handle::from_path(sprite_path)
HandleFromPath(path) == [path |-> path]

NoTeam == [number |-> 0, name |-> "", active |-> FALSE, image |-> HandleFromPath(NoPath)]

NoApiTeam == [id |-> 0, name |-> "", active |-> FALSE]

\* a Team whose image is the bare file name, not the path in the temp
\* directory
MakeTeamRelativeImage(team, sprite_path) ==
    [number |-> team.id, name |-> team.name, active |-> team.active,
     image |-> HandleFromPath([sprite_path EXCEPT !.dir = ""])]

\* a Team whose active flag is not taken from the selected record
MakeTeamAlwaysActive(team, sprite_path) ==
    [number |-> team.id, name |-> team.name, active |-> TRUE,
     image |-> HandleFromPath(sprite_path)]

\* Ok(Team { number: team.id, name: team.name, active: team.active, image: svg })
MakeTeam(team, sprite_path) ==
    [number |-> team.id, name |-> team.name, active |-> team.active,
     image |-> HandleFromPath(sprite_path)]

OkResult(team) == [kind |-> "Ok", team |-> team, error |-> "None"]

\* every failure is converted into the one variant Error::APIError
ErrResult == [kind |-> "Err", team |-> NoTeam, error |-> "APIError"]

NoResult == [kind |-> "None", team |-> NoTeam, error |-> "None"]

\* --------------------------------------------------- application states
Loading == [state |-> "Loading", team |-> NoTeam, error |-> "None"]

Loaded(team) == [state |-> "Loaded", team |-> team, error |-> "None"]

Errored(error) == [state |-> "Errored", team |-> NoTeam, error |-> error]

\* a range that includes its upper end
GenRangeInclusive(low, high) == low..high

\* rng.gen_range(0, n): the half-open range [0, n)
GenRange(low, high) == low..(high - 1)

\* teams.remove(i) for a 0-based i < teams.len(): the list without element i
Remove(teams, i) == SubSeq(teams, 1, i) \o SubSeq(teams, i + 2, Len(teams))

\* ----------------------------------------------------------- task state
NoResponse == [status |-> 0, body |-> <<>>]

\* a task that was not started
IdleTask ==
    [pc |-> "idle", fetched |-> <<>>, teams |-> <<>>, rng_idx |-> -1,
     team |-> NoApiTeam, path |-> NoPath, url |-> NoUrl, probed |-> FALSE,
     hit |-> FALSE, nDir |-> 0, nImg |-> 0, nWrite |-> 0,
     response |-> NoResponse, sprite_bytes |-> <<>>, failedAt |-> "none",
     result |-> NoResult]

\* Team::search() as handed to Command::perform: about to call get_teams()
NewTask == [IdleTask EXCEPT !.pc = "get_teams"]

\* the future is dropped once its message was handled
FinishedTask == [IdleTask EXCEPT !.pc = "finished"]

\* what update was last called with, and the Command it returned
NoUpdate == [msg |-> "none", cmd |-> "none"]

Handled(msg, cmd) == [msg |-> msg, cmd |-> cmd]

VARIABLES app, tasks, started, searchQ, fs, lastUpdate

vars == <<app, tasks, started, searchQ, fs, lastUpdate>>

\* the tasks whose TeamFound message was not handled yet
Outstanding == {t \in 1..MaxSearches : tasks[t].pc \notin {"idle", "finished", "panicked"}}

\* the tasks that were started and whose TeamFound message update has not
\* handled, those that aborted included
Unprocessed == {t \in 1..MaxSearches : tasks[t].pc \notin {"idle", "finished"}}

InitialCaches == [Paths -> {NoFile} \cup {File(b) : b \in Bodies}]

\* new() performing two searches at once
InitTwoSearches ==
    /\ app = Loading
    /\ started = 2
    /\ tasks = [t \in 1..MaxSearches |-> IF t <= 2 THEN NewTask ELSE IdleTask]
    /\ searchQ = 0
    /\ fs \in InitialCaches
    /\ lastUpdate = NoUpdate

\* new() returning Command::none(): no search is started
InitNoCommand ==
    /\ app = Loading
    /\ started = 1
    /\ tasks = [t \in 1..MaxSearches |-> IdleTask]
    /\ searchQ = 0
    /\ fs \in InitialCaches
    /\ lastUpdate = NoUpdate

\* HockeyApp::new(): Loading, one Team::search() performed
Init ==
    /\ app = Loading
    /\ started = 1
    /\ tasks = [t \in 1..MaxSearches |-> IF t = 1 THEN NewTask ELSE IdleTask]
    /\ searchQ = 0
    /\ fs \in InitialCaches
    /\ lastUpdate = NoUpdate

\* get_teams() whose failure is swallowed: the search goes on with an empty
\* list
GetTeamsErrorSwallowed(t) ==
    /\ tasks[t].pc = "get_teams"
    /\ \/ \E dir \in Directories :
            tasks' = [tasks EXCEPT ![t].nDir = @ + 1, ![t].fetched = dir,
                                   ![t].teams = dir, ![t].pc = "select"]
       \/ tasks' = [tasks EXCEPT ![t].nDir = @ + 1, ![t].failedAt = "get_teams",
                                 ![t].pc = "select"]
    /\ UNCHANGED <<app, started, searchQ, fs, lastUpdate>>

\* stats_client.get_teams().await.context("")?
GetTeams(t) ==
    /\ tasks[t].pc = "get_teams"
    /\ \/ \E dir \in Directories :
            tasks' = [tasks EXCEPT ![t].nDir = @ + 1, ![t].fetched = dir,
                                   ![t].teams = dir, ![t].pc = "select"]
       \/ tasks' = [tasks EXCEPT ![t].nDir = @ + 1, ![t].failedAt = "get_teams",
                                 ![t].result = ErrResult, ![t].pc = "done"]
    /\ UNCHANGED <<app, started, searchQ, fs, lastUpdate>>

\* a selection that returns the error when there is nothing to select
SelectEmptyIsError(t) ==
    /\ tasks[t].pc = "select"
    /\ IF GenRange(0, Len(tasks[t].teams)) = {}
       THEN tasks' = [tasks EXCEPT ![t].failedAt = "select", ![t].result = ErrResult,
                                   ![t].pc = "done"]
       ELSE \E i \in GenRange(0, Len(tasks[t].teams)) :
              tasks' = [tasks EXCEPT ![t].rng_idx = i,
                                     ![t].team = tasks[t].teams[i + 1],
                                     ![t].teams = Remove(tasks[t].teams, i),
                                     ![t].pc = "sprite"]
    /\ UNCHANGED <<app, started, searchQ, fs, lastUpdate>>

\* rng.gen_range(0, teams.len()) and teams.remove(rng_idx); both panic
\* instead of returning when the index range is empty or the index is out
\* of range
Select(t) ==
    /\ tasks[t].pc = "select"
    /\ IF GenRange(0, Len(tasks[t].teams)) = {}
       THEN tasks' = [tasks EXCEPT ![t].pc = "panicked"]
       ELSE \E i \in GenRange(0, Len(tasks[t].teams)) :
              IF i < Len(tasks[t].teams)
              THEN tasks' = [tasks EXCEPT ![t].rng_idx = i,
                                          ![t].team = tasks[t].teams[i + 1],
                                          ![t].teams = Remove(tasks[t].teams, i),
                                          ![t].pc = "sprite"]
              ELSE tasks' = [tasks EXCEPT ![t].rng_idx = i, ![t].pc = "panicked"]
    /\ UNCHANGED <<app, started, searchQ, fs, lastUpdate>>

\* get_sprite_for_team without the path.is_file() check: always fetches
ProbeNoCacheCheck(t) ==
    /\ tasks[t].pc = "sprite"
    /\ tasks' = [tasks EXCEPT ![t].path = CachePath(tasks[t].team.id),
                              ![t].probed = TRUE,
                              ![t].url = SpriteUrl(tasks[t].team.id),
                              ![t].nImg = @ + 1,
                              ![t].pc = "send"]
    /\ UNCHANGED <<app, started, searchQ, fs, lastUpdate>>

\* get_sprite_for_team taking an empty cache file for a miss
ProbeRefetchesEmptyFile(t) ==
    /\ tasks[t].pc = "sprite"
    /\ LET path == CachePath(tasks[t].team.id) IN
         IF IsFile(fs, path) /\ fs[path].bytes # <<>>
         THEN tasks' = [tasks EXCEPT ![t].path = path, ![t].probed = TRUE,
                                     ![t].hit = TRUE,
                                     ![t].result = OkResult(MakeTeam(tasks[t].team, path)),
                                     ![t].pc = "done"]
         ELSE tasks' = [tasks EXCEPT ![t].path = path, ![t].probed = TRUE,
                                     ![t].url = SpriteUrl(tasks[t].team.id),
                                     ![t].nImg = @ + 1,
                                     ![t].pc = "send"]
    /\ UNCHANGED <<app, started, searchQ, fs, lastUpdate>>

\* get_sprite_for_team(team.id) up to its first await: the cache probe, and
\* on a miss the request for the templated URL.  The URL is a fixed
\* template with a decimal number, so http::Request::get(&url).body(body)
\* succeeds.  On a hit the rest of Team::search runs: Ok(Team {..}).
Probe(t) ==
    /\ tasks[t].pc = "sprite"
    /\ LET path == CachePath(tasks[t].team.id) IN
         IF IsFile(fs, path)
         THEN tasks' = [tasks EXCEPT ![t].path = path, ![t].probed = TRUE,
                                     ![t].hit = TRUE,
                                     ![t].result = OkResult(MakeTeam(tasks[t].team, path)),
                                     ![t].pc = "done"]
         ELSE tasks' = [tasks EXCEPT ![t].path = path, ![t].probed = TRUE,
                                     ![t].url = SpriteUrl(tasks[t].team.id),
                                     ![t].nImg = @ + 1,
                                     ![t].pc = "send"]
    /\ UNCHANGED <<app, started, searchQ, fs, lastUpdate>>

\* a send that is tried a second time after a transport error
SendRetriesOnce(t) ==
    /\ tasks[t].pc = "send"
    /\ \/ \E resp \in Responses :
            tasks' = [tasks EXCEPT ![t].response = resp, ![t].pc = "read"]
       \/ IF tasks[t].nImg < 2
          THEN tasks' = [tasks EXCEPT ![t].nImg = @ + 1]
          ELSE tasks' = [tasks EXCEPT ![t].failedAt = "send", ![t].result = ErrResult,
                                      ![t].pc = "done"]
    /\ UNCHANGED <<app, started, searchQ, fs, lastUpdate>>

\* the send whose transport error is dropped: the path is returned anyway
SendErrorIgnored(t) ==
    /\ tasks[t].pc = "send"
    /\ \/ \E resp \in Responses :
            tasks' = [tasks EXCEPT ![t].response = resp, ![t].pc = "read"]
       \/ tasks' = [tasks EXCEPT ![t].failedAt = "send",
                                 ![t].result = OkResult(MakeTeam(tasks[t].team, tasks[t].path)),
                                 ![t].pc = "done"]
    /\ UNCHANGED <<app, started, searchQ, fs, lastUpdate>>

\* sprite_request.await.context("")?  The status of the response is not
\* looked at: any response is Ok.
Send(t) ==
    /\ tasks[t].pc = "send"
    /\ \/ \E resp \in Responses :
            tasks' = [tasks EXCEPT ![t].response = resp, ![t].pc = "read"]
       \/ tasks' = [tasks EXCEPT ![t].failedAt = "send", ![t].result = ErrResult,
                                 ![t].pc = "done"]
    /\ UNCHANGED <<app, started, searchQ, fs, lastUpdate>>

\* the tail of get_sprite_for_team with the file created before the body is
\* read: a failed read leaves an empty file
ReadAndWriteCreatesFirst(t) ==
    /\ tasks[t].pc = "read"
    /\ \/ /\ tasks' = [tasks EXCEPT ![t].failedAt = "read", ![t].result = ErrResult,
                                    ![t].pc = "done"]
          /\ fs' = [fs EXCEPT ![tasks[t].path] = File(<<>>)]
       \/ LET bytes == tasks[t].response.body
              path  == tasks[t].path IN
            \/ /\ fs' = WriteFile(fs, path, bytes)
               /\ tasks' = [tasks EXCEPT ![t].sprite_bytes = bytes,
                                         ![t].nWrite = @ + 1,
                                         ![t].result = OkResult(MakeTeam(tasks[t].team, path)),
                                         ![t].pc = "done"]
            \/ /\ \/ fs' = fs
                  \/ \E part \in StrictPrefixes(bytes) :
                        fs' = [fs EXCEPT ![path] = File(part)]
               /\ tasks' = [tasks EXCEPT ![t].sprite_bytes = bytes,
                                         ![t].nWrite = @ + 1,
                                         ![t].failedAt = "write",
                                         ![t].result = ErrResult,
                                         ![t].pc = "done"]
    /\ UNCHANGED <<app, started, searchQ, lastUpdate>>

\* sprite.read_to_end(&mut sprite_bytes).await.context("")?;
\* std::fs::write(&path, sprite_bytes).context("")?; Ok(path), and then the
\* rest of Team::search.  A failed write leaves no file, or a file holding
\* a strict prefix of the bytes.
ReadAndWrite(t) ==
    /\ tasks[t].pc = "read"
    /\ \/ /\ tasks' = [tasks EXCEPT ![t].failedAt = "read", ![t].result = ErrResult,
                                    ![t].pc = "done"]
          /\ fs' = fs
       \/ LET bytes == tasks[t].response.body
              path  == tasks[t].path IN
            \/ /\ fs' = WriteFile(fs, path, bytes)
               /\ tasks' = [tasks EXCEPT ![t].sprite_bytes = bytes,
                                         ![t].nWrite = @ + 1,
                                         ![t].result = OkResult(MakeTeam(tasks[t].team, path)),
                                         ![t].pc = "done"]
            \/ /\ \/ fs' = fs
                  \/ \E part \in StrictPrefixes(bytes) :
                        fs' = [fs EXCEPT ![path] = File(part)]
               /\ tasks' = [tasks EXCEPT ![t].sprite_bytes = bytes,
                                         ![t].nWrite = @ + 1,
                                         ![t].failedAt = "write",
                                         ![t].result = ErrResult,
                                         ![t].pc = "done"]
    /\ UNCHANGED <<app, started, searchQ, lastUpdate>>

\* update(Message::TeamFound(..)) that searches again by itself after an
\* error
UpdateTeamFoundRetries(t) ==
    /\ tasks[t].pc = "done"
    /\ IF tasks[t].result.kind = "Ok" \/ started = MaxSearches
       THEN /\ app' = IF tasks[t].result.kind = "Ok"
                      THEN Loaded(tasks[t].result.team)
                      ELSE Errored(tasks[t].result.error)
            /\ tasks' = [tasks EXCEPT ![t] = FinishedTask]
            /\ lastUpdate' = Handled("TeamFound", "none")
            /\ started' = started
       ELSE /\ app' = Errored(tasks[t].result.error)
            /\ tasks' = [tasks EXCEPT ![t] = FinishedTask, ![started + 1] = NewTask]
            /\ lastUpdate' = Handled("TeamFound", "perform")
            /\ started' = started + 1
    /\ UNCHANGED <<searchQ, fs>>

\* update(Message::TeamFound(Ok(team))) and update(Message::TeamFound(Err(error)))
UpdateTeamFound(t) ==
    /\ tasks[t].pc = "done"
    /\ app' = IF tasks[t].result.kind = "Ok"
              THEN Loaded(tasks[t].result.team)
              ELSE Errored(tasks[t].result.error)
    /\ tasks' = [tasks EXCEPT ![t] = FinishedTask]
    /\ lastUpdate' = Handled("TeamFound", "none")
    /\ UNCHANGED <<started, searchQ, fs>>

\* update(Message::Search) without the match on Loading: every Search
\* starts a task
UpdateSearchNoGuard ==
    /\ searchQ > 0
    /\ searchQ' = searchQ - 1
    /\ started < MaxSearches
    /\ app' = Loading
    /\ started' = started + 1
    /\ tasks' = [tasks EXCEPT ![started + 1] = NewTask]
    /\ lastUpdate' = Handled("Search", "perform")
    /\ UNCHANGED fs

\* update(Message::Search) that starts the search but leaves the screen as
\* it is
UpdateSearchKeepsScreen ==
    /\ searchQ > 0
    /\ searchQ' = searchQ - 1
    /\ IF app.state = "Loading"
       THEN /\ lastUpdate' = Handled("Search", "none")
            /\ UNCHANGED <<app, tasks, started>>
       ELSE /\ started < MaxSearches
            /\ app' = app
            /\ started' = started + 1
            /\ tasks' = [tasks EXCEPT ![started + 1] = NewTask]
            /\ lastUpdate' = Handled("Search", "perform")
    /\ UNCHANGED fs

\* update(Message::Search)
UpdateSearch ==
    /\ searchQ > 0
    /\ searchQ' = searchQ - 1
    /\ IF app.state = "Loading"
       THEN /\ lastUpdate' = Handled("Search", "none")
            /\ UNCHANGED <<app, tasks, started>>
       ELSE /\ started < MaxSearches
            /\ app' = Loading
            /\ started' = started + 1
            /\ tasks' = [tasks EXCEPT ![started + 1] = NewTask]
            /\ lastUpdate' = Handled("Search", "perform")
    /\ UNCHANGED fs

\* a press that also switches the screen to Loading, outside update
PressSetsLoading ==
    /\ app.state # "Loading"
    /\ searchQ < MaxPending
    /\ searchQ' = searchQ + 1
    /\ app' = Loading
    /\ UNCHANGED <<tasks, started, fs, lastUpdate>>

\* view(): the buttons of the Loaded and Errored screens send Search; the
\* Loading screen has no button.  Several presses can be queued before
\* update handles the first.
Press ==
    /\ app.state # "Loading"
    /\ searchQ < MaxPending
    /\ searchQ' = searchQ + 1
    /\ UNCHANGED <<app, tasks, started, fs, lastUpdate>>

Next ==
    \/ \E t \in 1..MaxSearches : GetTeams(t)
    \/ \E t \in 1..MaxSearches : Select(t)
    \/ \E t \in 1..MaxSearches : Probe(t)
    \/ \E t \in 1..MaxSearches : Send(t)
    \/ \E t \in 1..MaxSearches : ReadAndWrite(t)
    \/ \E t \in 1..MaxSearches : UpdateTeamFound(t)
    \/ UpdateSearch
    \/ Press

Spec == Init /\ [][Next]_vars

\* a step of some search task: a request or a file operation completing
TaskStep ==
    \E t \in 1..MaxSearches :
        GetTeams(t) \/ Select(t) \/ Probe(t) \/ Send(t) \/ ReadAndWrite(t)

\* the runtime delivering a completion message to update
Deliver == \E t \in 1..MaxSearches : UpdateTeamFound(t)

\* every request and file operation completes, the executor keeps polling
\* its tasks and the runtime hands every queued message to update; the
\* user is not obliged to press anything
FairSpec ==
    /\ Init
    /\ [][Next]_vars
    /\ WF_vars(TaskStep)
    /\ WF_vars(Deliver)
    /\ WF_vars(UpdateSearch)

TypeOK ==
    /\ app.state \in {"Loading", "Loaded", "Errored"}
    /\ started \in 1..MaxSearches
    /\ searchQ \in 0..MaxPending
    /\ \A t \in 1..MaxSearches :
         tasks[t].pc \in {"idle", "get_teams", "select", "sprite", "send", "read",
                          "done", "panicked", "finished"}
\* ------------------------------------------------------------ properties
\* update handled the TeamFound message of task t in this step
TeamFoundHandled(t) == tasks[t].pc = "done" /\ tasks'[t].pc = "finished"

\* update handled a Search message in this step
SearchHandled == searchQ' = searchQ - 1

Is2xx(status) == status \div 100 = 2

\* C1 as stated: a Search message handled while a search task is
\* outstanding starts a second search task.
C1_SearchWhileOutstandingStartsTask ==
    [][(SearchHandled /\ Outstanding # {}) => started' = started + 1]_vars

\* C1 amended: a Search message handled while a search task is outstanding
\* starts no task and changes nothing but the queue, so every completion
\* message that update handles comes from the task started last and never
\* replaces the result of a newer one.
C1_NoStaleCompletion ==
    [][/\ (SearchHandled /\ Outstanding # {}) =>
              /\ UNCHANGED <<app, tasks, started, fs>>
              /\ lastUpdate'.cmd = "none"
       /\ \A t \in 1..MaxSearches : TeamFoundHandled(t) => t = started]_vars

\* a Search message was handled while the startup search or a later one was
\* outstanding, and update returned Command::none()
C1_Witness ==
    /\ lastUpdate = Handled("Search", "none")
    /\ Outstanding # {}
    /\ started >= 2

\* C2 as stated: every change of the application state is caused by a
\* TeamFound message.
C2_OnlyTeamFoundChangesState ==
    [][app' # app => \E t \in 1..MaxSearches : TeamFoundHandled(t)]_vars

\* C2 amended: every change of the application state into Loaded or Errored
\* is caused by a TeamFound message; the only other change is into Loading,
\* caused by a Search message handled in Loaded or Errored.
C2_StateChangesOnlyInUpdate ==
    [][app' # app =>
         \/ /\ \E t \in 1..MaxSearches : TeamFoundHandled(t)
            /\ app'.state \in {"Loaded", "Errored"}
            /\ lastUpdate'.msg = "TeamFound"
         \/ /\ SearchHandled
            /\ app.state \in {"Loaded", "Errored"}
            /\ app' = Loading
            /\ lastUpdate' = Handled("Search", "perform")]_vars

\* a Search message has moved the application from Loaded to Loading
C2_Witness ==
    /\ app = Loading
    /\ lastUpdate = Handled("Search", "perform")
    /\ started = 2

\* C3: a response of the image endpoint with a status outside 2xx makes the
\* search fail with APIError, and nothing is written to the cache file.
C3_Non2xxIsFailure ==
    \A t \in 1..MaxSearches :
        (/\ tasks[t].pc = "done"
         /\ tasks[t].response # NoResponse
         /\ ~Is2xx(tasks[t].response.status)) =>
            /\ tasks[t].result = ErrResult
            /\ tasks[t].nWrite = 0
            /\ ~IsFile(fs, tasks[t].path)
SpriteSteps == {"send", "read", "write"}

\* C4: a search whose directory fetch failed has returned APIError without
\* selecting a team, probing the cache, requesting an image or writing a
\* file; handling its message makes the application Errored.
C4_DirectoryFailureShortCircuits ==
    /\ [](\A t \in 1..MaxSearches :
            tasks[t].failedAt = "get_teams" =>
                /\ tasks[t].pc = "done"
                /\ tasks[t].result = ErrResult
                /\ tasks[t].rng_idx = -1
                /\ tasks[t].team = NoApiTeam
                /\ ~tasks[t].probed
                /\ tasks[t].nImg = 0
                /\ tasks[t].nWrite = 0)
    /\ [][\A t \in 1..MaxSearches :
            (tasks[t].failedAt = "get_teams" /\ TeamFoundHandled(t)) =>
                (app' = Errored("APIError") /\ fs' = fs)]_vars

\* a search has returned after its directory fetch failed
C4_Witness ==
    \E t \in 1..MaxSearches :
        /\ tasks[t].failedAt = "get_teams"
        /\ tasks[t].pc = "done"
        /\ tasks[t].nDir = 1

\* C5: a search in which a step of the image resolution failed after a team
\* was selected has returned APIError and no Team; handling its message
\* makes the application Errored, not Loaded.
C5_SpriteFailureDiscardsTeam ==
    /\ [](\A t \in 1..MaxSearches :
            tasks[t].failedAt \in SpriteSteps =>
                /\ tasks[t].pc = "done"
                /\ tasks[t].team # NoApiTeam
                /\ tasks[t].result = ErrResult
                /\ tasks[t].result.team = NoTeam)
    /\ [][\A t \in 1..MaxSearches :
            (tasks[t].failedAt \in SpriteSteps /\ TeamFoundHandled(t)) =>
                (app' = Errored("APIError") /\ app'.state # "Loaded")]_vars

\* the file write of a search has failed after team 2 was selected
C5_Witness ==
    \E t \in 1..MaxSearches :
        /\ tasks[t].failedAt = "write"
        /\ tasks[t].pc = "done"
        /\ tasks[t].team = ApiTeam(2)

\* C6: get_sprite_for_team for an id whose cache file exists sends no
\* request, writes nothing, leaves every file as it was and returns the
\* path of that file.
C6_CacheHitIsIdempotent ==
    [][\A t \in 1..MaxSearches :
         (/\ tasks[t].pc = "sprite"
          /\ tasks'[t].pc # "sprite"
          /\ IsFile(fs, CachePath(tasks[t].team.id))) =>
            /\ tasks'[t].nImg = 0
            /\ tasks'[t].nWrite = 0
            /\ tasks'[t].response = NoResponse
            /\ fs' = fs
            /\ tasks'[t].pc = "done"
            /\ tasks'[t].result.kind = "Ok"
            /\ tasks'[t].result.team.image = HandleFromPath(CachePath(tasks[t].team.id))]_vars

\* a search has returned from a cache hit on a non-empty file
C6_Witness ==
    \E t \in 1..MaxSearches :
        /\ tasks[t].hit
        /\ tasks[t].pc = "done"
        /\ fs[tasks[t].path].bytes # <<>>

\* C7: when get_sprite_for_team succeeds for an id that had no cache file,
\* the file at the id's cache path holds exactly the body of the response,
\* and that path is returned.
C7_CacheMissRoundTrip ==
    [][\A t \in 1..MaxSearches :
         (/\ tasks[t].pc = "read"
          /\ tasks'[t].result.kind = "Ok") =>
            /\ ~IsFile(fs, CachePath(tasks[t].team.id))
            /\ fs'[CachePath(tasks[t].team.id)] = File(tasks[t].response.body)
            /\ tasks'[t].nImg = 1
            /\ tasks'[t].result.team.image = HandleFromPath(CachePath(tasks[t].team.id))]_vars

\* a search has fetched and stored a non-empty body for team 2
C7_Witness ==
    \E t \in 1..MaxSearches :
        /\ tasks[t].pc = "done"
        /\ tasks[t].result.kind = "Ok"
        /\ ~tasks[t].hit
        /\ tasks[t].team.id = 2
        /\ tasks[t].response.body # <<>>
        /\ fs[CachePath(2)] = File(tasks[t].response.body)

\* C8: the application starts in Loading with exactly one search task, the
\* first, and the completion of that task is handled as a TeamFound message
\* that sets the state from the task's result.
C8_StartsLoadingWithOneSearch ==
    /\ app = Loading
    /\ started = 1
    /\ Outstanding = {1}
    /\ tasks[1] = NewTask
    /\ [][TeamFoundHandled(1) =>
            /\ lastUpdate' = Handled("TeamFound", "none")
            /\ app' = IF tasks[1].result.kind = "Ok"
                      THEN Loaded(tasks[1].result.team)
                      ELSE Errored("APIError")]_vars

\* the message of the startup search was handled, nothing else since
C8_Witness ==
    /\ started = 1
    /\ tasks[1].pc = "finished"
    /\ lastUpdate = Handled("TeamFound", "none")
    /\ app.state = "Loaded"

\* C9: an index chosen by Team::search is within [0, N) for the N teams
\* fetched, N is not 0, and the team taken is the fetched element at that
\* index.
C9_SelectionWithinBounds ==
    \A t \in 1..MaxSearches :
        tasks[t].rng_idx # -1 =>
            /\ Len(tasks[t].fetched) > 0
            /\ tasks[t].rng_idx \in 0..(Len(tasks[t].fetched) - 1)
            /\ tasks[t].team = tasks[t].fetched[tasks[t].rng_idx + 1]
            /\ \E i \in 1..Len(tasks[t].fetched) : tasks[t].fetched[i] = tasks[t].team
            /\ tasks[t].teams = Remove(tasks[t].fetched, tasks[t].rng_idx)

\* the last of two different fetched teams was selected
C9_Witness ==
    \E t \in 1..MaxSearches :
        /\ tasks[t].pc = "sprite"
        /\ Len(tasks[t].fetched) = 2
        /\ tasks[t].rng_idx = 1
        /\ tasks[t].fetched[1] # tasks[t].fetched[2]

\* C10: the Team put into Loaded has the id, name and active flag of the
\* one fetched record that was selected, and its image is the cache path of
\* that id.
C10_LoadedTeamIsSelectedRecord ==
    [][\A t \in 1..MaxSearches :
         (TeamFoundHandled(t) /\ tasks[t].result.kind = "Ok") =>
            LET rec == tasks[t].fetched[tasks[t].rng_idx + 1] IN
              /\ app'.state = "Loaded"
              /\ app'.team.number = rec.id
              /\ app'.team.name = rec.name
              /\ app'.team.active = rec.active
              /\ app'.team.image = HandleFromPath(CachePath(rec.id))]_vars

\* team 2 of the directory <<1, 2>> is shown after its logo was fetched
C10_Witness ==
    /\ app = Loaded([number |-> 2, name |-> "B", active |-> FALSE,
                     image |-> HandleFromPath(CachePath(2))])
    /\ lastUpdate.msg = "TeamFound"
    /\ IsFile(fs, CachePath(2))
\* C11: with every request and file operation completing and messages
\* delivered, every Loading state is followed by Loaded or Errored.
C11_LoadingLeadsToResult ==
    (app.state = "Loading") ~> (app.state \in {"Loaded", "Errored"})
\* C12: a Search message handled in Loading changes nothing and starts no
\* task; a Search message handled in Loaded or Errored sets the state to
\* Loading and starts exactly one new task.
C12_SearchGuardedByLoading ==
    [][SearchHandled =>
         IF app.state = "Loading"
         THEN /\ UNCHANGED <<app, tasks, started, fs>>
              /\ lastUpdate' = Handled("Search", "none")
         ELSE /\ app' = Loading
              /\ started' = started + 1
              /\ tasks' = [tasks EXCEPT ![started + 1] = NewTask]
              /\ tasks[started + 1] = IdleTask
              /\ lastUpdate' = Handled("Search", "perform")
              /\ fs' = fs]_vars

\* of two queued Search messages the first started the second search and
\* the other was ignored while that search was at its first step
C12_Witness ==
    /\ lastUpdate = Handled("Search", "none")
    /\ app = Loading
    /\ started = 2
    /\ tasks[2] = NewTask
    /\ searchQ = 0

\* C13: a file that exists in the cache is never changed again, and no
\* image request is sent for an id whose file exists.
C13_CacheEntriesAreWriteOnce ==
    [][/\ \A p \in Paths : IsFile(fs, p) => fs'[p] = fs[p]
       /\ \A t \in 1..MaxSearches :
            tasks'[t].nImg > tasks[t].nImg =>
                ~IsFile(fs, CachePath(tasks[t].team.id))]_vars

\* a search other than the first has returned from a hit on an empty file,
\* without a request
C13_Witness ==
    \E t \in 2..MaxSearches :
        /\ tasks[t].hit
        /\ tasks[t].pc = "done"
        /\ tasks[t].nImg = 0
        /\ fs[tasks[t].path] = File(<<>>)

\* C14: a search whose directory fetch returned the empty list ends without
\* a result, neither Ok nor Err, having probed nothing and requested no
\* image; its message is never handled.
C14_EmptyDirectoryAborts ==
    /\ [](\A t \in 1..MaxSearches :
            (/\ tasks[t].pc \notin {"idle", "get_teams", "finished"}
             /\ tasks[t].failedAt # "get_teams"
             /\ tasks[t].fetched = <<>>) =>
                /\ tasks[t].pc \in {"select", "panicked"}
                /\ tasks[t].result = NoResult
                /\ tasks[t].rng_idx = -1
                /\ ~tasks[t].probed
                /\ tasks[t].nImg = 0)
    /\ [][\A t \in 1..MaxSearches :
            /\ (tasks[t].pc = "select" /\ tasks[t].teams = <<>> /\ tasks'[t] # tasks[t])
                   => tasks'[t].pc = "panicked"
            /\ tasks[t].pc = "panicked" => tasks'[t] = tasks[t]]_vars

\* a search has aborted on an empty directory
C14_Witness ==
    \E t \in 1..MaxSearches :
        /\ tasks[t].pc = "panicked"
        /\ tasks[t].fetched = <<>>
        /\ tasks[t].nDir = 1
        /\ app = Loading
\* C15: a search that failed at the transport or while reading the body
\* has written nothing, and there is still no file at its cache path; a
\* probe that finds no file sends the image request.
C15_NoFileBeforeBodyIsRead ==
    /\ [](\A t \in 1..MaxSearches :
            tasks[t].failedAt \in {"send", "read"} =>
                /\ tasks[t].nWrite = 0
                /\ tasks[t].sprite_bytes = <<>>
                /\ ~IsFile(fs, tasks[t].path))
    /\ [][\A t \in 1..MaxSearches :
            /\ (tasks[t].pc \in {"send", "read"} /\ tasks'[t].failedAt \in {"send", "read"})
                   => fs' = fs
            /\ (/\ tasks[t].pc = "sprite"
                /\ tasks'[t].pc # "sprite"
                /\ ~IsFile(fs, CachePath(tasks[t].team.id)))
                   => (tasks'[t].pc = "send" /\ tasks'[t].nImg = 1)]_vars

\* the body read of a search other than the first has failed and left no
\* file
C15_Witness ==
    \E t \in 2..MaxSearches :
        /\ tasks[t].failedAt = "read"
        /\ tasks[t].pc = "done"
        /\ ~IsFile(fs, tasks[t].path)

\* C16: a search sends one directory request and at most one image request,
\* the image request only after the directory request succeeded and a team
\* was selected, and for the URL and cache path of the selected team's id.
C16_OneRequestEachInOrder ==
    /\ [](\A t \in 1..MaxSearches :
            /\ tasks[t].nDir <= 1
            /\ tasks[t].nImg <= 1
            /\ tasks[t].pc \in {"select", "sprite", "send", "read", "done", "panicked"}
                   => tasks[t].nDir = 1
            /\ tasks[t].nImg = 1 =>
                   /\ tasks[t].nDir = 1
                   /\ tasks[t].failedAt # "get_teams"
                   /\ tasks[t].rng_idx # -1
                   /\ tasks[t].team = tasks[t].fetched[tasks[t].rng_idx + 1]
                   /\ tasks[t].url = SpriteUrl(tasks[t].team.id)
                   /\ tasks[t].path = CachePath(tasks[t].team.id))
    /\ [][\A t \in 1..MaxSearches :
            tasks'[t].nImg > tasks[t].nImg =>
                (tasks[t].pc = "sprite" /\ tasks'[t].nDir = tasks[t].nDir)]_vars

\* a search has returned Ok after one directory request and one image
\* request for team 1
C16_Witness ==
    \E t \in 1..MaxSearches :
        /\ tasks[t].pc = "done"
        /\ tasks[t].result.kind = "Ok"
        /\ tasks[t].nDir = 1
        /\ tasks[t].nImg = 1
        /\ tasks[t].url = SpriteUrl(1)

\* C17: handling a TeamFound message starts no search, and in Loaded or
\* Errored nothing changes the state, a task or a file until a Search
\* message is handled.
C17_NoAutomaticRetry ==
    [][/\ \A t \in 1..MaxSearches :
            TeamFoundHandled(t) =>
                /\ started' = started
                /\ tasks' = [tasks EXCEPT ![t] = FinishedTask]
                /\ lastUpdate'.cmd = "none"
       /\ (app.state \in {"Loaded", "Errored"} /\ ~SearchHandled) =>
                UNCHANGED <<app, tasks, started, fs>>]_vars

\* the application rests in Errored after the startup search: no task, no
\* queued message
C17_Witness ==
    /\ app = Errored("APIError")
    /\ lastUpdate = Handled("TeamFound", "none")
    /\ started = 1
    /\ Unprocessed = {}
    /\ searchQ = 0

\* C18: at most one started task has its message unhandled, there is one
\* exactly when the state is Loading, and a TeamFound message is handled
\* only in Loading.
C18_OneSearchExactlyWhenLoading ==
    /\ [](/\ Cardinality(Unprocessed) <= 1
          /\ (app.state = "Loading") <=> (Unprocessed # {}))
    /\ [][\A t \in 1..MaxSearches : TeamFoundHandled(t) => app.state = "Loading"]_vars

\* the third search is the only one in flight
C18_Witness ==
    /\ Unprocessed = {3}
    /\ tasks[3].pc = "read"
    /\ app = Loading

\* C19: in Loaded with a Team of number n a file exists at the cache path
\* of n and the Team's image is that path.
C19_LoadedTeamHasCacheFile ==
    app.state = "Loaded" =>
        /\ app.team.number \in 1..MaxId
        /\ IsFile(fs, CachePath(app.team.number))
        /\ app.team.image = HandleFromPath(CachePath(app.team.number))

\* team 1 is shown, with a non-empty logo file
C19_Witness ==
    /\ app.state = "Loaded"
    /\ app.team.number = 1
    /\ fs[CachePath(1)].bytes # <<>>
====
